---- MODULE Spec2Model ----
(***************************************************************************)
(* ICE40 FPGA loader (components/ice40): the configuration sequencer       *)
(* fpga_loader_load, its bitstream sources, the shared SPI bus semaphore   *)
(* master_spi_semaphore and a steady-state SPI user (send_rgb_to_fpga).    *)
(***************************************************************************)
EXTENDS Integers, Sequences, FiniteSets, TLC

(* ------------------------------ bounds --------------------------------- *)
\* largest CONFIG_FPGA_SPI_BUFFER_SIZE explored (LOADER_BUFFER_SIZE = 4 * it)
MaxBufferWords == 4
\* largest bitstream length (bytes) explored
MaxSize == 9
\* number of rom_read calls made on one context when it is exercised alone
MaxReads == 2
\* samples of CDONE explored when cdone_pin_wait is exercised alone
MaxPolls == 8
\* how far below the wrap of the tick counter cdone_pin_wait may be entered
MaxTickGap == 10

(* ------------------------- program constants --------------------------- *)
\* FreeRTOS tick rate of the build (ticks per second)
configTICK_RATE_HZ == 30
\* TickType_t is 32 bits wide; a tick value is kept as two 16-bit halves
HalfModulus == 65536
CDONE_TIMEOUT_MS == 100
SETTLE_MS == 2
COMPLETION_PAD_BYTES == 13
ACTIVATION_PAD_BYTES == 7

ESP_OK == "ESP_OK"
ESP_FAIL == "ESP_FAIL"
ESP_ERR_NO_MEM == "ESP_ERR_NO_MEM"
ESP_ERR_INVALID_ARG == "ESP_ERR_INVALID_ARG"
ESP_ERR_INVALID_STATE == "ESP_ERR_INVALID_STATE"
ESP_ERR_NOT_FOUND == "ESP_ERR_NOT_FOUND"
ESP_ERR_TIMEOUT == "ESP_ERR_TIMEOUT"
NULL == "NULL"

\* signal a GPIO pad is routed to by gpio_matrix_out
SIG_GPIO_OUT_IDX == "SIG_GPIO_OUT_IDX"
FSPICS0_OUT_IDX == "FSPICS0_OUT_IDX"

\* tasks that may call the loader, and the steady-state SPI user
Loaders == {"L1", "L2"}
AppTask == "app"
AppDevice == "app_dev"

\* tick counter values at which a run may start (far from / close to the wrap)
TickStarts == {[hi |-> 0, lo |-> 0],
               [hi |-> HalfModulus - 1, lo |-> HalfModulus - 6]}

VARIABLES
    CONFIG_FPGA_SPI_BUFFER_SIZE, \* Kconfig value, fixed per build
    master_spi_semaphore,        \* set of tasks holding the mutex
    bus_acquirer,                \* device that owns the driver's bus lock
    spi_devices,                 \* device handles registered on FSPI_HOST
    fpga_update_device,          \* static handle of fpga_loader.c
    fpga_spi_device,             \* static handle of the application
    creset, cs, cs_signal,       \* CRESET level, CS level, CS pad routing
    tickCount,                   \* xTaskGetTickCount()
    pc, source, ret, buffer, remaining, timeout,
    wub_tag, wub_len, wub_ret,   \* write_update_block: call site, length, result
    trace,                       \* per session: what it did, in order
    app_pc, app_ret

vars == <<CONFIG_FPGA_SPI_BUFFER_SIZE, master_spi_semaphore, bus_acquirer,
          spi_devices, fpga_update_device, fpga_spi_device, creset, cs,
          cs_signal, tickCount, pc, source, ret, buffer, remaining, timeout,
          wub_tag, wub_len, wub_ret, trace, app_pc, app_ret>>

\* everything but the loader's own control state and the semaphore
hw_vars == <<creset, cs, cs_signal>>
app_vars == <<app_pc, app_ret, fpga_spi_device>>

LOADER_BUFFER_SIZE == CONFIG_FPGA_SPI_BUFFER_SIZE * 4

pdMS_TO_TICKS(ms) == (ms * configTICK_RATE_HZ) \div 1000

\* TickType_t arithmetic: a + n modulo 2^32 (n < 2^16), and a > b
TickAdd(a, n) ==
    LET lo == a.lo + n
    IN  [hi |-> (a.hi + (lo \div HalfModulus)) % HalfModulus,
         lo |-> lo % HalfModulus]

TickGreater(a, b) == a.hi > b.hi \/ (a.hi = b.hi /\ a.lo > b.lo)

Min(a, b) == IF a < b THEN a ELSE b

NoSource == [kind |-> "none", size |-> 0, pos |-> 0, len |-> 0]

\* one entry of a session's trace
Ev(op, tag, len, got, res) ==
    [op |-> op, tag |-> tag, len |-> len, got |-> got, res |-> res,
     cs |-> cs, creset |-> creset]

Log(t, e) == trace' = [trace EXCEPT ![t] = Append(@, e)]

\* results the SPI driver's transmit primitive can report
TransmitResults == {ESP_OK, ESP_ERR_INVALID_STATE}

Init ==
    /\ CONFIG_FPGA_SPI_BUFFER_SIZE \in 1..MaxBufferWords
    /\ master_spi_semaphore = {}
    /\ bus_acquirer = NULL
    /\ spi_devices = {}
    /\ fpga_update_device = NULL
    /\ fpga_spi_device = NULL
    /\ creset = 0
    /\ cs = 1
    /\ cs_signal = FSPICS0_OUT_IDX
    /\ tickCount \in TickStarts
    /\ pc = [t \in Loaders |-> IF t = "L1" THEN "idle" ELSE "off"]
    /\ source = [t \in Loaders |-> NoSource]
    /\ ret = [t \in Loaders |-> "none"]
    /\ buffer = [t \in Loaders |-> "unallocated"]
    /\ remaining = [t \in Loaders |-> 0]
    /\ timeout = [t \in Loaders |-> [hi |-> 0, lo |-> 0]]
    /\ wub_tag = [t \in Loaders |-> "none"]
    /\ wub_len = [t \in Loaders |-> 0]
    /\ wub_ret = [t \in Loaders |-> "none"]
    /\ trace = [t \in Loaders |-> <<>>]
    /\ app_pc = "a_start"
    /\ app_ret = "none"

(* --------------------------- bitstream sources ------------------------- *)
\* fpga_bin_t descriptors handed to fpga_loader_load_from_rom
FpgaBins == {[null |-> TRUE, start |-> 0, end |-> 0]}
            \cup [null : {FALSE}, start : 0..1, end : 0..MaxSize]

\* faulty read: hands out what is left when fewer than n bytes remain
rom_read_greedy(src, n) ==
    LET k == Min(n, src.size - src.pos)
    IN  [got |-> k, src |-> [src EXCEPT !.pos = @ + k]]

\* rom_read: result and context after asking for n bytes
rom_read(src, n) ==
    IF src.pos + n > src.size
    THEN [got |-> 0, src |-> src]
    ELSE [got |-> n, src |-> [src EXCEPT !.pos = @ + n]]

\* file_read: fread(buffer, 1, n, fp) on a stream that delivers src.len bytes
\* in all (src.len = src.size stands for every stream of at least src.size)
file_read(src, n) ==
    LET k == Min(n, src.len - src.pos)
    IN  [got |-> k, src |-> [src EXCEPT !.pos = @ + k]]

\* source->read(buffer, n, source->ctx)
source_read(src, n) ==
    IF src.kind = "rom" THEN rom_read(src, n) ELSE file_read(src, n)

(* ------------------------------ entry points --------------------------- *)
loader_locals == <<buffer, remaining, timeout, wub_tag, wub_len, wub_ret>>
driver_vars == <<master_spi_semaphore, bus_acquirer, spi_devices, fpga_update_device>>
env_vars == <<CONFIG_FPGA_SPI_BUFFER_SIZE, tickCount>>

\* a dereferenced NULL handle panics the chip: every task stops
panic == [u \in Loaders |-> "crashed"]

\* faulty range check: an empty range (end = start) is accepted
fpga_loader_load_from_rom_lax(t) ==
    /\ pc[t] = "idle"
    /\ \E fpga_bin \in FpgaBins :
          /\ Log(t, Ev("call", IF fpga_bin.null THEN "rom_null" ELSE "rom",
                        fpga_bin.end - fpga_bin.start, 0, "none"))
          /\ IF fpga_bin.null \/ fpga_bin.end < fpga_bin.start
             THEN /\ ret' = [ret EXCEPT ![t] = ESP_ERR_INVALID_ARG]
                  /\ pc' = [pc EXCEPT ![t] = "done"]
                  /\ UNCHANGED source
             ELSE /\ source' = [source EXCEPT ![t] =
                        [kind |-> "rom", size |-> fpga_bin.end - fpga_bin.start,
                         pos |-> 0, len |-> fpga_bin.end - fpga_bin.start]]
                  /\ pc' = [pc EXCEPT ![t] = "load"]
                  /\ UNCHANGED ret
    /\ UNCHANGED <<loader_locals, driver_vars, env_vars, hw_vars, app_vars>>

\* fpga_loader_load_from_rom, lines 219-241
fpga_loader_load_from_rom(t) ==
    /\ pc[t] = "idle"
    /\ \E fpga_bin \in FpgaBins :
          /\ Log(t, Ev("call", IF fpga_bin.null THEN "rom_null" ELSE "rom",
                        fpga_bin.end - fpga_bin.start, 0, "none"))
          /\ IF fpga_bin.null \/ fpga_bin.end <= fpga_bin.start
             THEN /\ ret' = [ret EXCEPT ![t] = ESP_ERR_INVALID_ARG]
                  /\ pc' = [pc EXCEPT ![t] = "done"]
                  /\ UNCHANGED source
             ELSE /\ source' = [source EXCEPT ![t] =
                        [kind |-> "rom", size |-> fpga_bin.end - fpga_bin.start,
                         pos |-> 0, len |-> fpga_bin.end - fpga_bin.start]]
                  /\ pc' = [pc EXCEPT ![t] = "load"]
                  /\ UNCHANGED ret
    /\ UNCHANGED <<loader_locals, driver_vars, env_vars, hw_vars, app_vars>>

fpga_loader_load_from_file(t) ==
    /\ pc[t] = "idle"
    /\ \/ \* stat() fails
          /\ ret' = [ret EXCEPT ![t] = ESP_ERR_NOT_FOUND]
          /\ pc' = [pc EXCEPT ![t] = "done"]
          /\ UNCHANGED source
       \/ \* fopen() fails
          /\ ret' = [ret EXCEPT ![t] = ESP_FAIL]
          /\ pc' = [pc EXCEPT ![t] = "done"]
          /\ UNCHANGED source
       \/ \* st.st_size is the reported size, len what fread will deliver
          \E st_size \in 0..MaxSize : \E len \in 0..st_size :
             /\ source' = [source EXCEPT ![t] =
                   [kind |-> "file", size |-> st_size, pos |-> 0, len |-> len]]
             /\ pc' = [pc EXCEPT ![t] = "load"]
             /\ UNCHANGED ret
    /\ UNCHANGED <<loader_locals, driver_vars, env_vars, hw_vars, app_vars, trace>>

(* --------------------------- fpga_loader_load -------------------------- *)
\* update_spi_device_add, then the failure return of fpga_loader_load
update_spi_device_add(t) ==
    /\ pc[t] = "load"
    /\ \/ /\ fpga_update_device' = t
          /\ spi_devices' = spi_devices \cup {t}
          /\ pc' = [pc EXCEPT ![t] = "acquire"]
          /\ UNCHANGED ret
       \/ \* spi_bus_add_device reports an error, the handle is not written
          /\ ret' = [ret EXCEPT ![t] = ESP_ERR_NO_MEM]
          /\ pc' = [pc EXCEPT ![t] = "done"]
          /\ UNCHANGED <<fpga_update_device, spi_devices>>
    /\ UNCHANGED <<loader_locals, master_spi_semaphore, bus_acquirer, source,
                   env_vars, hw_vars, app_vars, trace>>

\* spi_device_acquire_bus(fpga_update_device, portMAX_DELAY)
acquire_bus(t) ==
    /\ pc[t] = "acquire"
    /\ \/ /\ fpga_update_device # NULL
          /\ bus_acquirer = NULL
          /\ bus_acquirer' = fpga_update_device
          /\ Log(t, Ev("acquire", fpga_update_device, 0, 0, ESP_OK))
          /\ pc' = [pc EXCEPT ![t] = "reset_low"]
          /\ UNCHANGED ret
       \/ \* the driver reports an error
          /\ ret' = [ret EXCEPT ![t] = ESP_ERR_INVALID_ARG]
          /\ pc' = [pc EXCEPT ![t] = "cleanup_device"]
          /\ UNCHANGED <<bus_acquirer, trace>>
       \/ \* the handle is NULL and the driver dereferences it
          /\ fpga_update_device = NULL
          /\ pc' = panic
          /\ UNCHANGED <<ret, bus_acquirer, trace>>
    /\ UNCHANGED <<loader_locals, master_spi_semaphore, spi_devices,
                   fpga_update_device, source, env_vars, hw_vars, app_vars>>

\* steps 1-3: CRESET_B = 0, SPI_SS_B = 0 under direct GPIO control, vTaskDelay(1)
reset_low(t) ==
    /\ pc[t] = "reset_low"
    /\ creset' = 0
    /\ cs' = 0
    /\ cs_signal' = SIG_GPIO_OUT_IDX
    /\ trace' = [trace EXCEPT ![t] = Append(@,
                   [op |-> "reset", tag |-> "none", len |-> 0, got |-> 0,
                    res |-> "none", cs |-> 0, creset |-> 0])]
    /\ tickCount' = TickAdd(tickCount, 1)
    /\ pc' = [pc EXCEPT ![t] = "reset_release"]
    /\ UNCHANGED <<loader_locals, driver_vars, source, ret,
                   CONFIG_FPGA_SPI_BUFFER_SIZE, app_vars>>

\* faulty release: CRESET_B is driven low again instead of high
reset_release_stuck(t) ==
    /\ pc[t] = "reset_release"
    /\ creset' = 0
    /\ trace' = [trace EXCEPT ![t] = Append(@,
                   [op |-> "reset", tag |-> "none", len |-> 0, got |-> 0,
                    res |-> "none", cs |-> cs, creset |-> 0])]
    /\ tickCount' = TickAdd(tickCount, pdMS_TO_TICKS(SETTLE_MS))
    /\ pc' = [pc EXCEPT ![t] = "dummy_select"]
    /\ UNCHANGED <<loader_locals, driver_vars, source, ret, cs, cs_signal,
                   CONFIG_FPGA_SPI_BUFFER_SIZE, app_vars>>

\* steps 4-5: release CRESET_B, vTaskDelay(pdMS_TO_TICKS(2))
reset_release(t) ==
    /\ pc[t] = "reset_release"
    /\ creset' = 1
    /\ trace' = [trace EXCEPT ![t] = Append(@,
                   [op |-> "reset", tag |-> "none", len |-> 1, got |-> 0,
                    res |-> "none", cs |-> cs, creset |-> 1])]
    /\ tickCount' = TickAdd(tickCount, pdMS_TO_TICKS(SETTLE_MS))
    /\ pc' = [pc EXCEPT ![t] = "dummy_select"]
    /\ UNCHANGED <<loader_locals, driver_vars, source, ret, cs, cs_signal,
                   CONFIG_FPGA_SPI_BUFFER_SIZE, app_vars>>

\* faulty step 6: the dummy byte is sent with SPI_SS_B left low
dummy_select_low(t) ==
    /\ pc[t] = "dummy_select"
    /\ wub_tag' = [wub_tag EXCEPT ![t] = "dummy"]
    /\ wub_len' = [wub_len EXCEPT ![t] = 1]
    /\ pc' = [pc EXCEPT ![t] = "wub_enter"]
    /\ UNCHANGED <<buffer, remaining, timeout, wub_ret, driver_vars, source, ret,
                   cs, creset, cs_signal, env_vars, app_vars, trace>>

\* step 6: SPI_SS_B = 1, write_update_block(dummy, 1)
dummy_select(t) ==
    /\ pc[t] = "dummy_select"
    /\ cs' = 1
    /\ wub_tag' = [wub_tag EXCEPT ![t] = "dummy"]
    /\ wub_len' = [wub_len EXCEPT ![t] = 1]
    /\ pc' = [pc EXCEPT ![t] = "wub_enter"]
    /\ UNCHANGED <<buffer, remaining, timeout, wub_ret, driver_vars, source, ret,
                   creset, cs_signal, env_vars, app_vars, trace>>

(* --------------------------- write_update_block ------------------------ *)
\* faulty take: granted even while another task holds the semaphore
xSemaphoreTake_nowait(task) ==
    master_spi_semaphore' = master_spi_semaphore \cup {task}

\* xSemaphoreTake(master_spi_semaphore, portMAX_DELAY): blocks while it is held
xSemaphoreTake(task) ==
    /\ master_spi_semaphore = {}
    /\ master_spi_semaphore' = master_spi_semaphore \cup {task}

\* xSemaphoreGive(master_spi_semaphore)
xSemaphoreGive(task) ==
    master_spi_semaphore' = master_spi_semaphore \ {task}

\* spi_device_transmit on dev is served unless another device acquired the bus
bus_serves(dev) == bus_acquirer \in {NULL, dev}

\* where write_update_block returns to
wub_return_pc(tag) ==
    CASE tag = "dummy" -> "dummy_ret"
      [] tag = "chunk" -> "chunk_ret"
      [] tag = "pad13" -> "cdone_start"
      [] tag = "pad7"  -> "handoff"

\* lines 54-65: the length check, then the semaphore take
write_update_block_enter(t) ==
    /\ pc[t] = "wub_enter"
    /\ IF wub_len[t] > LOADER_BUFFER_SIZE
       THEN /\ wub_ret' = [wub_ret EXCEPT ![t] = ESP_FAIL]
            /\ Log(t, Ev("refused", wub_tag[t], wub_len[t], 0, ESP_FAIL))
            /\ pc' = [pc EXCEPT ![t] = wub_return_pc(wub_tag[t])]
            /\ UNCHANGED master_spi_semaphore
       ELSE /\ xSemaphoreTake(t)
            /\ pc' = [pc EXCEPT ![t] = "wub_transmit"]
            /\ UNCHANGED <<wub_ret, trace>>
    /\ UNCHANGED <<buffer, remaining, timeout, wub_tag, wub_len, bus_acquirer,
                   spi_devices, fpga_update_device, source, ret, env_vars,
                   hw_vars, app_vars>>

\* line 66: spi_device_transmit(fpga_update_device, &trans)
write_update_block_transmit(t) ==
    /\ pc[t] = "wub_transmit"
    /\ IF fpga_update_device # NULL
       THEN /\ bus_serves(fpga_update_device)
            /\ \E r \in TransmitResults :
                  /\ wub_ret' = [wub_ret EXCEPT ![t] = r]
                  /\ Log(t, Ev("tx", wub_tag[t], wub_len[t], 0, r))
            /\ pc' = [pc EXCEPT ![t] = "wub_give"]
       ELSE \* NULL handle: the driver rejects it or dereferences it
            \/ /\ wub_ret' = [wub_ret EXCEPT ![t] = ESP_ERR_INVALID_ARG]
               /\ Log(t, Ev("rejected", wub_tag[t], wub_len[t], 0,
                             ESP_ERR_INVALID_ARG))
               /\ pc' = [pc EXCEPT ![t] = "wub_give"]
            \/ /\ pc' = panic
               /\ UNCHANGED <<wub_ret, trace>>
    /\ UNCHANGED <<buffer, remaining, timeout, wub_tag, wub_len, driver_vars,
                   source, ret, env_vars, hw_vars, app_vars>>

\* faulty return: a failed transmission returns without giving the semaphore
write_update_block_give_leak(t) ==
    /\ pc[t] = "wub_give"
    /\ IF wub_ret[t] # ESP_OK
       THEN UNCHANGED master_spi_semaphore
       ELSE xSemaphoreGive(t)
    /\ pc' = [pc EXCEPT ![t] = wub_return_pc(wub_tag[t])]
    /\ UNCHANGED <<loader_locals, bus_acquirer, spi_devices, fpga_update_device,
                   source, ret, env_vars, hw_vars, app_vars, trace>>

\* lines 67-69: give the semaphore, return ret
write_update_block_give(t) ==
    /\ pc[t] = "wub_give"
    /\ xSemaphoreGive(t)
    /\ pc' = [pc EXCEPT ![t] = wub_return_pc(wub_tag[t])]
    /\ UNCHANGED <<loader_locals, bus_acquirer, spi_devices, fpga_update_device,
                   source, ret, env_vars, hw_vars, app_vars, trace>>

(* ------------------- fpga_loader_load, steps 6 to 10 ------------------- *)
\* faulty check: the result of the dummy byte's write is not looked at
dummy_ret_ignore(t) ==
    /\ pc[t] = "dummy_ret"
    /\ cs' = 0
    /\ \/ /\ buffer' = [buffer EXCEPT ![t] = "allocated"]
          /\ remaining' = [remaining EXCEPT ![t] = source[t].size]
          /\ ret' = [ret EXCEPT ![t] = wub_ret[t]]
          /\ pc' = [pc EXCEPT ![t] = "stream"]
       \/ /\ ret' = [ret EXCEPT ![t] = ESP_ERR_NO_MEM]
          /\ pc' = [pc EXCEPT ![t] = "cleanup_bus"]
          /\ UNCHANGED <<buffer, remaining>>
    /\ UNCHANGED <<timeout, wub_tag, wub_len, wub_ret, driver_vars, source,
                   creset, cs_signal, env_vars, app_vars, trace>>

\* lines 129-146: result of the dummy byte, SPI_SS_B = 0, buffer allocation
dummy_ret(t) ==
    /\ pc[t] = "dummy_ret"
    /\ IF wub_ret[t] # ESP_OK
       THEN /\ ret' = [ret EXCEPT ![t] = wub_ret[t]]
            /\ pc' = [pc EXCEPT ![t] = "cleanup_bus"]
            /\ UNCHANGED <<cs, buffer, remaining>>
       ELSE /\ cs' = 0
            /\ \/ /\ buffer' = [buffer EXCEPT ![t] = "allocated"]
                  /\ remaining' = [remaining EXCEPT ![t] = source[t].size]
                  /\ ret' = [ret EXCEPT ![t] = wub_ret[t]]
                  /\ pc' = [pc EXCEPT ![t] = "stream"]
               \/ \* heap_caps_malloc returns NULL
                  /\ ret' = [ret EXCEPT ![t] = ESP_ERR_NO_MEM]
                  /\ pc' = [pc EXCEPT ![t] = "cleanup_bus"]
                  /\ UNCHANGED <<buffer, remaining>>
    /\ UNCHANGED <<timeout, wub_tag, wub_len, wub_ret, driver_vars, source,
                   creset, cs_signal, env_vars, app_vars, trace>>

\* faulty chunk size: a full chunk is one byte short of the buffer
chunk_size_short(rem) ==
    IF rem > LOADER_BUFFER_SIZE THEN LOADER_BUFFER_SIZE - 1 ELSE rem

\* size of the next chunk, line 149
chunk_size(rem) == IF rem > LOADER_BUFFER_SIZE THEN LOADER_BUFFER_SIZE ELSE rem

\* lines 148-158: loop test, source read, short-read check, call of the write
stream(t) ==
    /\ pc[t] = "stream"
    /\ IF remaining[t] > 0
       THEN LET chunk == chunk_size(remaining[t])
                r == source_read(source[t], chunk)
            IN  /\ source' = [source EXCEPT ![t] = r.src]
                /\ Log(t, Ev("read", "chunk", chunk, r.got, "none"))
                /\ buffer' = [buffer EXCEPT ![t] = "data"]
                /\ IF r.got # chunk
                   THEN /\ ret' = [ret EXCEPT ![t] = ESP_FAIL]
                        /\ pc' = [pc EXCEPT ![t] = "completion"]
                        /\ UNCHANGED <<wub_tag, wub_len>>
                   ELSE /\ wub_tag' = [wub_tag EXCEPT ![t] = "chunk"]
                        /\ wub_len' = [wub_len EXCEPT ![t] = chunk]
                        /\ pc' = [pc EXCEPT ![t] = "wub_enter"]
                        /\ UNCHANGED ret
       ELSE /\ pc' = [pc EXCEPT ![t] = "completion"]
            /\ UNCHANGED <<source, trace, buffer, ret, wub_tag, wub_len>>
    /\ UNCHANGED <<remaining, timeout, wub_ret, driver_vars, env_vars, hw_vars,
                   app_vars>>

\* faulty bookkeeping: remaining is decremented before the result is checked
chunk_ret_eager(t) ==
    /\ pc[t] = "chunk_ret"
    /\ ret' = [ret EXCEPT ![t] = wub_ret[t]]
    /\ remaining' = [remaining EXCEPT ![t] = @ - wub_len[t]]
    /\ pc' = [pc EXCEPT ![t] = IF wub_ret[t] # ESP_OK THEN "completion"
                                ELSE "stream"]
    /\ UNCHANGED <<buffer, timeout, wub_tag, wub_len, wub_ret, driver_vars,
                   source, env_vars, hw_vars, app_vars, trace>>

\* lines 158-164: result of the chunk's write, remaining -= chunk
chunk_ret(t) ==
    /\ pc[t] = "chunk_ret"
    /\ ret' = [ret EXCEPT ![t] = wub_ret[t]]
    /\ IF wub_ret[t] # ESP_OK
       THEN /\ pc' = [pc EXCEPT ![t] = "completion"]
            /\ UNCHANGED remaining
       ELSE /\ remaining' = [remaining EXCEPT ![t] = @ - wub_len[t]]
            /\ pc' = [pc EXCEPT ![t] = "stream"]
    /\ UNCHANGED <<buffer, timeout, wub_tag, wub_len, wub_ret, driver_vars,
                   source, env_vars, hw_vars, app_vars, trace>>

\* lines 168-170: SPI_SS_B = 1, zero the buffer, write_update_block(buffer, 13)
completion(t) ==
    /\ pc[t] = "completion"
    /\ cs' = 1
    /\ buffer' = [buffer EXCEPT ![t] = "zeroed"]
    /\ wub_tag' = [wub_tag EXCEPT ![t] = "pad13"]
    /\ wub_len' = [wub_len EXCEPT ![t] = COMPLETION_PAD_BYTES]
    /\ pc' = [pc EXCEPT ![t] = "wub_enter"]
    /\ UNCHANGED <<remaining, timeout, wub_ret, driver_vars, source, ret,
                   creset, cs_signal, env_vars, app_vars, trace>>

\* cdone_pin_wait line 79: timeout = xTaskGetTickCount() + pdMS_TO_TICKS(100)
cdone_start(t) ==
    /\ pc[t] = "cdone_start"
    /\ timeout' = [timeout EXCEPT ![t] =
                     TickAdd(tickCount, pdMS_TO_TICKS(CDONE_TIMEOUT_MS))]
    /\ pc' = [pc EXCEPT ![t] = "cdone_poll"]
    /\ UNCHANGED <<buffer, remaining, wub_tag, wub_len, wub_ret, driver_vars,
                   source, ret, env_vars, hw_vars, app_vars, trace>>

\* faulty poll: leaving the loop on the timeout also reports ESP_OK
cdone_poll_lenient(t) ==
    /\ pc[t] = "cdone_poll"
    /\ \E level \in {0, 1} :
          /\ Log(t, Ev("sample", "cdone", 0, level, "none"))
          /\ IF level = 1 \/ TickGreater(tickCount, timeout[t])
             THEN /\ ret' = [ret EXCEPT ![t] = ESP_OK]
                  /\ pc' = [pc EXCEPT ![t] = "activation"]
                  /\ UNCHANGED tickCount
             ELSE /\ tickCount' = TickAdd(tickCount, 1)
                  /\ UNCHANGED <<ret, pc>>
    /\ UNCHANGED <<loader_locals, driver_vars, source, hw_vars, app_vars,
                   CONFIG_FPGA_SPI_BUFFER_SIZE>>

\* cdone_pin_wait lines 81-88: one sample of CDONE, then line 172 assigns ret
cdone_poll(t) ==
    /\ pc[t] = "cdone_poll"
    /\ \E level \in {0, 1} :
          /\ Log(t, Ev("sample", "cdone", 0, level, "none"))
          /\ IF level = 1
             THEN /\ ret' = [ret EXCEPT ![t] = ESP_OK]
                  /\ pc' = [pc EXCEPT ![t] = "activation"]
                  /\ UNCHANGED tickCount
             ELSE IF TickGreater(tickCount, timeout[t])
             THEN /\ ret' = [ret EXCEPT ![t] = ESP_ERR_TIMEOUT]
                  /\ pc' = [pc EXCEPT ![t] = "activation"]
                  /\ UNCHANGED tickCount
             ELSE /\ tickCount' = TickAdd(tickCount, 1)
                  /\ UNCHANGED <<ret, pc>>
    /\ UNCHANGED <<loader_locals, driver_vars, source, hw_vars, app_vars,
                   CONFIG_FPGA_SPI_BUFFER_SIZE>>

\* line 178: write_update_block(buffer, 7)
activation(t) ==
    /\ pc[t] = "activation"
    /\ wub_tag' = [wub_tag EXCEPT ![t] = "pad7"]
    /\ wub_len' = [wub_len EXCEPT ![t] = ACTIVATION_PAD_BYTES]
    /\ pc' = [pc EXCEPT ![t] = "wub_enter"]
    /\ UNCHANGED <<buffer, remaining, timeout, wub_ret, driver_vars, source, ret,
                   env_vars, hw_vars, app_vars, trace>>

\* lines 181-188: CS back to the SPI peripheral, heap_caps_free(buffer)
handoff(t) ==
    /\ pc[t] = "handoff"
    /\ cs' = 1
    /\ cs_signal' = FSPICS0_OUT_IDX
    /\ buffer' = [buffer EXCEPT ![t] = "freed"]
    /\ pc' = [pc EXCEPT ![t] = "cleanup_bus"]
    /\ UNCHANGED <<remaining, timeout, wub_tag, wub_len, wub_ret, driver_vars,
                   source, ret, creset, env_vars, app_vars, trace>>

\* faulty cleanup: the bus is not released
cleanup_bus_keep(t) ==
    /\ pc[t] = "cleanup_bus"
    /\ pc' = [pc EXCEPT ![t] = "cleanup_device"]
    /\ UNCHANGED <<loader_locals, driver_vars, source, ret, env_vars, hw_vars,
                   app_vars, trace>>

\* line 191: spi_device_release_bus(fpga_update_device)
cleanup_bus(t) ==
    /\ pc[t] = "cleanup_bus"
    /\ IF fpga_update_device # NULL
       THEN \* released only if this device is the one that acquired
            /\ bus_acquirer' = IF bus_acquirer = fpga_update_device THEN NULL
                               ELSE bus_acquirer
            /\ pc' = [pc EXCEPT ![t] = "cleanup_device"]
       ELSE \* NULL handle: the driver rejects it or dereferences it
            /\ UNCHANGED bus_acquirer
            /\ pc' \in {[pc EXCEPT ![t] = "cleanup_device"], panic}
    /\ UNCHANGED <<loader_locals, master_spi_semaphore, spi_devices,
                   fpga_update_device, source, ret, env_vars, hw_vars,
                   app_vars, trace>>

\* update_spi_device_remove (lines 45-50), then return ret (line 196)
update_spi_device_remove(t) ==
    /\ pc[t] = "cleanup_device"
    /\ IF fpga_update_device = NULL
       THEN \* NULL handle: the driver rejects it or dereferences it
            /\ UNCHANGED spi_devices
            /\ pc' \in {[pc EXCEPT ![t] = "done"], panic}
       ELSE IF fpga_update_device = bus_acquirer
       THEN \* the device still owns the bus: the driver refuses, or frees it
            /\ spi_devices' \in {spi_devices, spi_devices \ {fpga_update_device}}
            /\ pc' = [pc EXCEPT ![t] = "done"]
       ELSE /\ spi_devices' = spi_devices \ {fpga_update_device}
            /\ pc' = [pc EXCEPT ![t] = "done"]
    /\ fpga_update_device' = NULL
    /\ UNCHANGED <<loader_locals, master_spi_semaphore, bus_acquirer, source,
                   ret, env_vars, hw_vars, app_vars, trace>>

(* ------------------- steady-state user (web-led main.c) ---------------- *)
loader_vars == <<pc, source, ret, loader_locals, trace, fpga_update_device>>

\* fpga_spi_device_add, called by app_main before any send_rgb_to_fpga
fpga_spi_device_add ==
    /\ app_pc = "a_start"
    /\ \/ /\ fpga_spi_device' = AppDevice
          /\ spi_devices' = spi_devices \cup {AppDevice}
          /\ app_pc' = "a_idle"
       \/ \* spi_bus_add_device fails, app_main returns
          /\ app_pc' = "a_exit"
          /\ UNCHANGED <<fpga_spi_device, spi_devices>>
    /\ UNCHANGED <<app_ret, loader_vars, master_spi_semaphore,
                   bus_acquirer, env_vars, hw_vars>>

\* send_rgb_to_fpga, lines 90-101: NULL check, then the semaphore take
send_rgb_enter ==
    /\ app_pc = "a_idle"
    /\ IF fpga_spi_device = NULL
       THEN /\ app_ret' = ESP_ERR_INVALID_STATE
            /\ UNCHANGED <<app_pc, master_spi_semaphore>>
       ELSE /\ xSemaphoreTake(AppTask)
            /\ app_pc' = "a_transmit"
            /\ UNCHANGED app_ret
    /\ UNCHANGED <<fpga_spi_device, loader_vars, bus_acquirer, spi_devices,
                   env_vars, hw_vars>>

\* send_rgb_to_fpga, line 102: spi_device_transmit(fpga_spi_device, &trans)
send_rgb_transmit ==
    /\ app_pc = "a_transmit"
    /\ bus_serves(fpga_spi_device)
    /\ \E r \in TransmitResults : app_ret' = r
    /\ app_pc' = "a_give"
    /\ UNCHANGED <<fpga_spi_device, loader_vars, master_spi_semaphore,
                   bus_acquirer, spi_devices, env_vars, hw_vars>>

\* send_rgb_to_fpga, lines 103-109: give the semaphore, return
send_rgb_give ==
    /\ app_pc = "a_give"
    /\ xSemaphoreGive(AppTask)
    /\ app_pc' = "a_idle"
    /\ app_ret' = "none"
    /\ UNCHANGED <<fpga_spi_device, loader_vars, bus_acquirer,
                   spi_devices, env_vars, hw_vars>>

(* ------------------------ rom_read exercised alone --------------------- *)
\* a rom_ctx_t with its cursor anywhere in the range, nothing else started
InitRom ==
    /\ CONFIG_FPGA_SPI_BUFFER_SIZE = 1
    /\ master_spi_semaphore = {}
    /\ bus_acquirer = NULL
    /\ spi_devices = {}
    /\ fpga_update_device = NULL
    /\ fpga_spi_device = NULL
    /\ creset = 0
    /\ cs = 1
    /\ cs_signal = FSPICS0_OUT_IDX
    /\ tickCount = [hi |-> 0, lo |-> 0]
    /\ pc = [t \in Loaders |-> IF t = "L1" THEN "rom_ctx" ELSE "off"]
    /\ \E size \in 1..MaxSize : \E pos \in 0..size :
          source = [t \in Loaders |->
                      IF t = "L1"
                      THEN [kind |-> "rom", size |-> size, pos |-> pos,
                            len |-> size]
                      ELSE NoSource]
    /\ ret = [t \in Loaders |-> "none"]
    /\ buffer = [t \in Loaders |-> "unallocated"]
    /\ remaining = [t \in Loaders |-> 0]
    /\ timeout = [t \in Loaders |-> [hi |-> 0, lo |-> 0]]
    /\ wub_tag = [t \in Loaders |-> "none"]
    /\ wub_len = [t \in Loaders |-> 0]
    /\ wub_ret = [t \in Loaders |-> "none"]
    /\ trace = [t \in Loaders |-> <<>>]
    /\ app_pc = "a_start"
    /\ app_ret = "none"

\* one call rom_read(buffer, n, ctx), for any n
rom_read_call(t) ==
    /\ pc[t] = "rom_ctx"
    /\ Len(trace[t]) < MaxReads
    /\ \E n \in 0..(MaxSize + 1) :
          LET r == rom_read(source[t], n)
          IN  /\ source' = [source EXCEPT ![t] = r.src]
              /\ Log(t, Ev("read", "rom", n, r.got, "none"))
    /\ UNCHANGED <<pc, ret, loader_locals, driver_vars, env_vars, hw_vars,
                   app_vars>>

NextRom == \E t \in Loaders : rom_read_call(t)

SpecRom == InitRom /\ [][NextRom]_vars

(* --------------------- cdone_pin_wait exercised alone ------------------ *)
\* tick counter values at which cdone_pin_wait is entered
PollStarts ==
    {[hi |-> 0, lo |-> n] : n \in 0..1}
    \cup {[hi |-> HalfModulus - 1, lo |-> HalfModulus - n] : n \in 1..MaxTickGap}

\* a session that has sent the completion padding and enters cdone_pin_wait
InitPoll ==
    /\ CONFIG_FPGA_SPI_BUFFER_SIZE = MaxBufferWords
    /\ master_spi_semaphore = {}
    /\ bus_acquirer = "L1"
    /\ spi_devices = {"L1"}
    /\ fpga_update_device = "L1"
    /\ fpga_spi_device = NULL
    /\ creset = 1
    /\ cs = 1
    /\ cs_signal = SIG_GPIO_OUT_IDX
    /\ tickCount \in PollStarts
    /\ pc = [t \in Loaders |-> IF t = "L1" THEN "cdone_start" ELSE "off"]
    /\ source = [t \in Loaders |-> NoSource]
    /\ ret = [t \in Loaders |-> IF t = "L1" THEN ESP_OK ELSE "none"]
    /\ buffer = [t \in Loaders |-> IF t = "L1" THEN "zeroed" ELSE "unallocated"]
    /\ remaining = [t \in Loaders |-> 0]
    /\ timeout = [t \in Loaders |-> [hi |-> 0, lo |-> 0]]
    /\ wub_tag = [t \in Loaders |-> IF t = "L1" THEN "pad13" ELSE "none"]
    /\ wub_len = [t \in Loaders |->
                    IF t = "L1" THEN COMPLETION_PAD_BYTES ELSE 0]
    /\ wub_ret = [t \in Loaders |-> IF t = "L1" THEN ESP_OK ELSE "none"]
    /\ trace = [t \in Loaders |-> <<>>]
    /\ app_pc = "a_start"
    /\ app_ret = "none"

\* one pass of the while loop of cdone_pin_wait, at most MaxPolls of them
cdone_pin_wait_pass(t) ==
    /\ Len(trace[t]) < MaxPolls
    /\ cdone_poll(t)

NextPoll ==
    \/ \E t \in Loaders : cdone_start(t)
    \/ \E t \in Loaders : cdone_pin_wait_pass(t)

SpecPoll == InitPoll /\ [][NextPoll]_vars

(* ----------------------------- specification --------------------------- *)
\* two tasks have each called fpga_loader_load_from_rom on a 1-byte image
InitTwo ==
    /\ CONFIG_FPGA_SPI_BUFFER_SIZE = MaxBufferWords
    /\ master_spi_semaphore = {}
    /\ bus_acquirer = NULL
    /\ spi_devices = {}
    /\ fpga_update_device = NULL
    /\ fpga_spi_device = NULL
    /\ creset = 0
    /\ cs = 1
    /\ cs_signal = FSPICS0_OUT_IDX
    /\ tickCount = [hi |-> 0, lo |-> 0]
    /\ pc = [t \in Loaders |-> "load"]
    /\ source = [t \in Loaders |->
                   [kind |-> "rom", size |-> 1, pos |-> 0, len |-> 1]]
    /\ ret = [t \in Loaders |-> "none"]
    /\ buffer = [t \in Loaders |-> "unallocated"]
    /\ remaining = [t \in Loaders |-> 0]
    /\ timeout = [t \in Loaders |-> [hi |-> 0, lo |-> 0]]
    /\ wub_tag = [t \in Loaders |-> "none"]
    /\ wub_len = [t \in Loaders |-> 0]
    /\ wub_ret = [t \in Loaders |-> "none"]
    /\ trace = [t \in Loaders |->
                  <<[op |-> "call", tag |-> "rom", len |-> 1, got |-> 0,
                     res |-> "none", cs |-> 1, creset |-> 0]>>]
    /\ app_pc = "a_start"
    /\ app_ret = "none"

NextTwo ==
    \/ \E t \in Loaders : update_spi_device_add(t)
    \/ \E t \in Loaders : acquire_bus(t)
    \/ \E t \in Loaders : reset_low(t)
    \/ \E t \in Loaders : reset_release(t)
    \/ \E t \in Loaders : dummy_select(t)
    \/ \E t \in Loaders : write_update_block_enter(t)
    \/ \E t \in Loaders : write_update_block_transmit(t)
    \/ \E t \in Loaders : write_update_block_give(t)
    \/ \E t \in Loaders : dummy_ret(t)
    \/ \E t \in Loaders : stream(t)
    \/ \E t \in Loaders : chunk_ret(t)
    \/ \E t \in Loaders : completion(t)
    \/ \E t \in Loaders : cdone_start(t)
    \/ \E t \in Loaders : cdone_poll(t)
    \/ \E t \in Loaders : activation(t)
    \/ \E t \in Loaders : handoff(t)
    \/ \E t \in Loaders : cleanup_bus(t)
    \/ \E t \in Loaders : update_spi_device_remove(t)

SpecTwo == InitTwo /\ [][NextTwo]_vars

Next ==
    \/ \E t \in Loaders : fpga_loader_load_from_rom(t)
    \/ \E t \in Loaders : fpga_loader_load_from_file(t)
    \/ \E t \in Loaders : update_spi_device_add(t)
    \/ \E t \in Loaders : acquire_bus(t)
    \/ \E t \in Loaders : reset_low(t)
    \/ \E t \in Loaders : reset_release(t)
    \/ \E t \in Loaders : dummy_select(t)
    \/ \E t \in Loaders : write_update_block_enter(t)
    \/ \E t \in Loaders : write_update_block_transmit(t)
    \/ \E t \in Loaders : write_update_block_give(t)
    \/ \E t \in Loaders : dummy_ret(t)
    \/ \E t \in Loaders : stream(t)
    \/ \E t \in Loaders : chunk_ret(t)
    \/ \E t \in Loaders : completion(t)
    \/ \E t \in Loaders : cdone_start(t)
    \/ \E t \in Loaders : cdone_poll(t)
    \/ \E t \in Loaders : activation(t)
    \/ \E t \in Loaders : handoff(t)
    \/ \E t \in Loaders : cleanup_bus(t)
    \/ \E t \in Loaders : update_spi_device_remove(t)
    \/ fpga_spi_device_add
    \/ send_rgb_enter
    \/ send_rgb_transmit
    \/ send_rgb_give

Spec == Init /\ [][Next]_vars

(* ------------------------- reading a session's trace ------------------- *)
Returned(t) == pc[t] = "done"

BusAcquired(t) == \E i \in DOMAIN trace[t] : trace[t][i].op = "acquire"

\* positions of the short read, of transmissions, of asserted samples
IsShortRead(e) == e.op = "read" /\ e.got # e.len
IsTx(e) == e.op = "tx"
IsChunkTx(e) == e.op = "tx" /\ e.tag = "chunk"
IsSample(e) == e.op = "sample"

ShortRead(t) == \E i \in DOMAIN trace[t] : IsShortRead(trace[t][i])
ChunkTxFailed(t) ==
    \E i \in DOMAIN trace[t] : IsChunkTx(trace[t][i]) /\ trace[t][i].res # ESP_OK

ChunkTxs(t) == {i \in DOMAIN trace[t] : IsChunkTx(trace[t][i])}

RECURSIVE SumLen(_, _)
SumLen(tr, S) ==
    IF S = {} THEN 0
    ELSE LET i == CHOOSE j \in S : TRUE
         IN  tr[i].len + SumLen(tr, S \ {i})

CeilDiv(a, b) == (a + b - 1) \div b

(* ------------------------------- claims -------------------------------- *)

\* C1: a session in which a source read came back short never returns ESP_OK,
\* whatever the completion pin reads afterwards.
C1_ShortReadReturnsFailure ==
    \A t \in Loaders : (Returned(t) /\ ShortRead(t)) => ret[t] # ESP_OK

\* C2: a session in which the transmission of a bitstream chunk failed never
\* returns ESP_OK, whatever the completion pin reads afterwards.
C2_TransmitFailureReturnsFailure ==
    \A t \in Loaders : (Returned(t) /\ ChunkTxFailed(t)) => ret[t] # ESP_OK

\* C3: after a short read the session issues no SPI transmission at all.
C3_NoTransmissionAfterShortRead ==
    \A t \in Loaders : \A i, j \in DOMAIN trace[t] :
        (i < j /\ IsShortRead(trace[t][i])) => ~IsTx(trace[t][j])

\* C4: when every read and every transmission succeeded, the Streaming loop
\* ends after exactly ceil(L / C) chunk transmissions of 1..C bytes each that
\* sum to L, with remaining = 0.
C4_ChunkCount ==
    \A t \in Loaders :
        (pc[t] = "completion" /\ ~ShortRead(t) /\ ~ChunkTxFailed(t)) =>
            /\ Cardinality(ChunkTxs(t)) =
                   CeilDiv(source[t].size, LOADER_BUFFER_SIZE)
            /\ \A i \in ChunkTxs(t) :
                   trace[t][i].len \in 1..LOADER_BUFFER_SIZE
            /\ SumLen(trace[t], ChunkTxs(t)) = source[t].size
            /\ remaining[t] = 0

\* C4 witness: a Streaming loop that ended after three successful chunks
C4_Witness ==
    \E t \in Loaders :
        /\ pc[t] = "completion" /\ ~ShortRead(t) /\ ~ChunkTxFailed(t)
        /\ Cardinality(ChunkTxs(t)) = 3
        /\ source[t].size % LOADER_BUFFER_SIZE # 0

\* C5: once the bus was acquired, every return leaves the bus released, the
\* transient device deregistered (fpga_update_device NULL) and the transfer
\* buffer freed if it had been allocated.
C5_AllReleasedOnReturn ==
    \A t \in Loaders :
        (Returned(t) /\ BusAcquired(t)) =>
            /\ bus_acquirer # t
            /\ fpga_update_device = NULL
            /\ t \notin spi_devices
            /\ buffer[t] \in {"unallocated", "freed"}

\* C5 witness: a session returned after a Streaming abort, with its buffer freed
C5_Witness ==
    \E t \in Loaders :
        /\ Returned(t) /\ BusAcquired(t)
        /\ buffer[t] = "freed"
        /\ (ShortRead(t) \/ ChunkTxFailed(t))

\* a session that has transmitted a chunk and still has chunks to transmit
MidStreaming(t) ==
    /\ pc[t] \in {"stream", "wub_enter", "wub_transmit", "wub_give", "chunk_ret"}
    /\ ChunkTxs(t) # {}
    /\ remaining[t] > 0
    /\ ~ShortRead(t) /\ ~ChunkTxFailed(t)

\* C6: while a session is in the middle of Streaming, the application task
\* does not hold master_spi_semaphore.
C6_NoAppAcquireMidStreaming ==
    ~(AppTask \in master_spi_semaphore /\ \E t \in Loaders : MidStreaming(t))

\* C7: no state is reached where the session holds the driver's bus lock and
\* waits for master_spi_semaphore while the application task holds the
\* semaphore and waits for the bus.
C7_NoLockOrderDeadlock ==
    ~(\E t \in Loaders :
        /\ bus_acquirer = t
        /\ pc[t] = "wub_enter" /\ wub_len[t] <= LOADER_BUFFER_SIZE
        /\ AppTask \in master_spi_semaphore
        /\ app_pc = "a_transmit" /\ ~bus_serves(fpga_spi_device))

\* tasks that are between their xSemaphoreTake and their xSemaphoreGive
InCriticalSection ==
    {t \in Loaders : pc[t] \in {"wub_transmit", "wub_give"}}
    \cup (IF app_pc \in {"a_transmit", "a_give"} THEN {AppTask} ELSE {})

\* C8: master_spi_semaphore has at most one holder at every instant, and the
\* holder is the one task between its take and its give.
C8_OneHolder ==
    /\ Cardinality(InCriticalSection) <= 1
    /\ master_spi_semaphore = InCriticalSection

\* C8 witness: the loader holds the semaphore while the application task,
\* its device registered, stands before its own take
C8_Witness ==
    /\ \E t \in Loaders : pc[t] = "wub_transmit" /\ t \in master_spi_semaphore
    /\ app_pc = "a_idle" /\ fpga_spi_device # NULL

\* the completion poll ended without one asserted sample
PollTimedOut(t) ==
    /\ pc[t] \in {"activation", "wub_enter", "wub_transmit", "wub_give",
                  "handoff", "cleanup_bus", "cleanup_device", "done"}
    /\ \E i \in DOMAIN trace[t] : IsSample(trace[t][i])
    /\ \A i \in DOMAIN trace[t] : IsSample(trace[t][i]) => trace[t][i].got = 0

\* C9: when the completion pin never read asserted, the session returns
\* ESP_ERR_TIMEOUT and has transmitted the Activation padding after the poll,
\* restored CS to the SPI peripheral, released the bus and deregistered.
C9_TimeoutStillHandsOff ==
    \A t \in Loaders :
        (Returned(t) /\ PollTimedOut(t)) =>
            /\ ret[t] = ESP_ERR_TIMEOUT
            /\ \E j \in DOMAIN trace[t] :
                  /\ IsTx(trace[t][j]) /\ trace[t][j].tag = "pad7"
                  /\ \A i \in DOMAIN trace[t] : IsSample(trace[t][i]) => i < j
            /\ cs_signal = FSPICS0_OUT_IDX
            /\ bus_acquirer # t
            /\ fpga_update_device = NULL /\ t \notin spi_devices

\* C10: a session that returns ESP_OK sampled the completion pin as asserted,
\* and did so before any Activation padding was transmitted.
C10_SuccessSampledAsserted ==
    \A t \in Loaders :
        (Returned(t) /\ ret[t] = ESP_OK) =>
            \E i \in DOMAIN trace[t] :
                /\ IsSample(trace[t][i]) /\ trace[t][i].got = 1
                /\ \A j \in DOMAIN trace[t] :
                      (trace[t][j].tag = "pad7") => i < j

\* C10 witness: a successful return with the Activation padding transmitted
C10_Witness ==
    \E t \in Loaders :
        /\ Returned(t) /\ ret[t] = ESP_OK
        /\ \E j \in DOMAIN trace[t] :
              IsTx(trace[t][j]) /\ trace[t][j].tag = "pad7"

\* chunk transmissions before position i that the driver reported as done
ChunkTxsDoneBefore(t, i) ==
    {j \in ChunkTxs(t) : j < i /\ trace[t][j].res = ESP_OK}

\* a padding transmission of at least `edges` clock edges
IsPadTx(e, tag, edges) == IsTx(e) /\ e.tag = tag /\ e.len * 8 >= edges

\* the poll is over
AfterPoll(t) ==
    /\ pc[t] \in {"activation", "wub_enter", "wub_transmit", "wub_give",
                  "handoff", "cleanup_bus", "cleanup_device", "done"}
    /\ \E i \in DOMAIN trace[t] : IsSample(trace[t][i])

\* C11: every sample of the completion pin comes after all `size` bytes of
\* the bitstream were transmitted and after the completion padding was sent.
C11_SampleOnlyAfterFullStream ==
    \A t \in Loaders : \A i \in DOMAIN trace[t] :
        IsSample(trace[t][i]) =>
            /\ SumLen(trace[t], ChunkTxsDoneBefore(t, i)) = source[t].size
            /\ \E j \in DOMAIN trace[t] :
                  j < i /\ IsTx(trace[t][j]) /\ trace[t][j].tag = "pad13"

\* C12: whatever LOADER_BUFFER_SIZE is, at least 100 clock edges of padding
\* are transmitted before the first poll of the completion pin, and at least
\* 49 more after the poll.
C12_PaddingTransmitted ==
    \A t \in Loaders :
        /\ \A i \in DOMAIN trace[t] :
              IsSample(trace[t][i]) =>
                  \E j \in DOMAIN trace[t] :
                      j < i /\ IsPadTx(trace[t][j], "pad13", 100)
        /\ (Returned(t) /\ AfterPoll(t)) =>
              \E j \in DOMAIN trace[t] :
                  /\ IsPadTx(trace[t][j], "pad7", 49)
                  /\ \A i \in DOMAIN trace[t] : IsSample(trace[t][i]) => i < j

\* C14: with two concurrent sessions, a session acquires the bus only with the
\* device handle it registered itself, and once both sessions have returned no
\* transient device is left registered on the bus.
C14_DeviceOwnedBySession ==
    /\ \A t \in Loaders : \A i \in DOMAIN trace[t] :
          trace[t][i].op = "acquire" => trace[t][i].tag = t
    /\ (\A t \in Loaders : Returned(t)) => spi_devices \cap Loaders = {}

\* levels the session drove on CRESET_B, in order
IsReset(e) == e.op = "reset"
ResetLevels(t) == SelectSeq(trace[t], IsReset)

InvalidRomCall(t) ==
    /\ Len(trace[t]) >= 1
    /\ trace[t][1].op = "call"
    /\ (trace[t][1].tag = "rom_null" \/ trace[t][1].len <= 0)

\* C16: an invalid descriptor returns ESP_ERR_INVALID_ARG with nothing done:
\* no device, no bus, pins as they were, nothing read or transmitted.
C16_InvalidDescriptorRejected ==
    \A t \in Loaders :
        InvalidRomCall(t) =>
            /\ Returned(t) /\ ret[t] = ESP_ERR_INVALID_ARG
            /\ Len(trace[t]) = 1
            /\ fpga_update_device = NULL /\ t \notin spi_devices
            /\ bus_acquirer = NULL
            /\ buffer[t] = "unallocated"
            /\ creset = 0 /\ cs = 1 /\ cs_signal = FSPICS0_OUT_IDX

\* C16 witness: a call with an empty range has returned
C16_Witness ==
    \E t \in Loaders :
        /\ InvalidRomCall(t) /\ Returned(t)
        /\ trace[t][1].tag = "rom" /\ trace[t][1].len = 0

\* the dummy byte's transmission failed
DummyTxFailed(e) == IsTx(e) /\ e.tag = "dummy" /\ e.res # ESP_OK

\* C17: after a failed dummy byte nothing more is read, transmitted or
\* sampled, and the session returns that failure with the bus released and
\* the device deregistered.
C17_DummyFailureAborts ==
    \A t \in Loaders : \A i \in DOMAIN trace[t] :
        DummyTxFailed(trace[t][i]) =>
            /\ i = Len(trace[t])
            /\ source[t].pos = 0
            /\ buffer[t] = "unallocated"
            /\ Returned(t) =>
                  /\ ret[t] = trace[t][i].res
                  /\ bus_acquirer # t
                  /\ fpga_update_device = NULL /\ t \notin spi_devices

\* C17 witness: a session returned after its dummy byte failed
C17_Witness ==
    \E t \in Loaders :
        /\ Returned(t)
        /\ \E i \in DOMAIN trace[t] : DummyTxFailed(trace[t][i])

\* what the session did on the bus, the source and the completion pin
IsProtocolEvent(e) == e.op \in {"tx", "refused", "read", "sample"}
ProtocolEvents(t) == SelectSeq(trace[t], IsProtocolEvent)

\* C18: a session on a source of size 0 that reaches the completion check
\* does, in order: dummy byte, no read and no chunk, >= 100 clocks of
\* padding, the poll, >= 49 clocks of padding, handoff; and returns ESP_OK
\* when the pin read asserted.
C18_EmptySourceSequence ==
    \A t \in Loaders :
        (Returned(t) /\ source[t].kind # "none" /\ source[t].size = 0
                     /\ AfterPoll(t)) =>
            LET p == ProtocolEvents(t)
                n == Len(p)
            IN  /\ n >= 4
                /\ IsTx(p[1]) /\ p[1].tag = "dummy" /\ p[1].len = 1
                /\ IsPadTx(p[2], "pad13", 100)
                /\ \A k \in 3..(n - 1) : IsSample(p[k])
                /\ IsPadTx(p[n], "pad7", 49)
                /\ cs_signal = FSPICS0_OUT_IDX
                /\ p[n - 1].got = 1 => ret[t] = ESP_OK

\* C19: the loader holds master_spi_semaphore exactly from the take to the
\* give of write_update_block: it holds it while it transmits, gives it back
\* after the transmission whatever the result, and holds it at no other time.
C19_HeldOnlyAroundTransmit ==
    \A t \in Loaders :
        /\ (t \in master_spi_semaphore) <=> (pc[t] \in {"wub_transmit", "wub_give"})
        /\ (pc[t] = "wub_give") =>
              (/\ trace[t] # <<>>
               /\ IsTx(trace[t][Len(trace[t])])
               /\ t \in master_spi_semaphore)
        /\ Returned(t) => t \notin master_spi_semaphore

\* C19 witness: the session is back from a failed transmission, semaphore given
C19_Witness ==
    \E t \in Loaders :
        /\ pc[t] = "chunk_ret" /\ wub_ret[t] # ESP_OK
        /\ IsTx(trace[t][Len(trace[t])])
        /\ t \notin master_spi_semaphore

\* remaining has been set and the session is not inside a chunk's write
AtLoopBoundary(t) ==
    /\ buffer[t] # "unallocated"
    /\ ~(pc[t] \in {"wub_give", "chunk_ret"} /\ wub_tag[t] = "chunk")

RomReadStep(t) == pc[t] = "rom_ctx" /\ Len(trace'[t]) = Len(trace[t]) + 1

\* bytes left after the cursor before the step, request and result of the step
RomLeft(t) == source[t].size - source[t].pos
RomAsked(t) == trace'[t][Len(trace'[t])].len
RomGot(t) == trace'[t][Len(trace'[t])].got

\* C13 as claimed: rom_read asked for n bytes returns min(n, remaining) bytes
\* and advances the cursor by that amount.
C13_RomReadMin ==
    [][\A t \in Loaders :
          RomReadStep(t) =>
              /\ RomGot(t) = Min(RomAsked(t), RomLeft(t))
              /\ source'[t].pos = source[t].pos + RomGot(t)]_vars

\* C13 as amended: rom_read returns n and advances the cursor by n when at
\* least n bytes remain; otherwise it returns 0 and leaves the cursor alone.
\* It never returns more than n, and fewer than n only when fewer remain.
C13_RomReadAllOrNothing ==
    [][\A t \in Loaders :
          RomReadStep(t) =>
              /\ RomGot(t) = IF RomAsked(t) <= RomLeft(t) THEN RomAsked(t) ELSE 0
              /\ source'[t].pos = source[t].pos + RomGot(t)
              /\ RomGot(t) <= RomAsked(t)
              /\ RomGot(t) < RomAsked(t) => RomLeft(t) < RomAsked(t)]_vars

\* C13 witness: a read of more than what was left, with bytes left, returned 0
C13_Witness ==
    \E t \in Loaders :
        /\ pc[t] = "rom_ctx" /\ trace[t] # <<>>
        /\ LET e == trace[t][Len(trace[t])]
           IN  /\ e.len > source[t].size - source[t].pos
               /\ e.got = 0
               /\ source[t].pos < source[t].size

SwitchedToManual(t) == \E i \in DOMAIN trace[t] : IsReset(trace[t][i])

\* C22: whenever fpga_loader_load returns after switching chip-select to
\* direct GPIO control, chip-select is routed to the SPI peripheral's signal
\* again and idles high, on the error paths too.
C22_ChipSelectRestored ==
    \A t \in Loaders :
        (Returned(t) /\ SwitchedToManual(t)) =>
            cs_signal = FSPICS0_OUT_IDX /\ cs = 1

\* samples of the completion pin that read deasserted, each followed by the
\* timeout test of line 82
IsLowSample(e) == IsSample(e) /\ e.got = 0
LowSamples(t) == Len(SelectSeq(trace[t], IsLowSample))

\* cdone_pin_wait has returned ESP_ERR_TIMEOUT
TimeoutReported(t) == pc[t] = "activation" /\ ret[t] = ESP_ERR_TIMEOUT

\* C23: for every tick count at which cdone_pin_wait is entered, a pin that
\* never asserts ends the loop after a bounded number of one-tick sleeps, the
\* timeout is reported only after at least pdMS_TO_TICKS(100) sleeps, and the
\* pin has been sampled before any timeout is reported.
C23_PollBounded ==
    \A t \in Loaders :
        /\ LowSamples(t) <= pdMS_TO_TICKS(CDONE_TIMEOUT_MS) + 2
        /\ TimeoutReported(t) =>
              /\ LowSamples(t) >= 1
              /\ LowSamples(t) - 1 >= pdMS_TO_TICKS(CDONE_TIMEOUT_MS)

====
